---- MODULE Spec2Model ----
(***************************************************************************)
(* IndexMap<T> (src/src/lib.rs): a Vec of OptionIndex<T> cells, the head   *)
(* of a free list threaded through the free cells, and a count of the      *)
(* occupied cells.  Keys are 0-based; key i lives at data[i + 1].          *)
(***************************************************************************)
EXTENDS Integers, Sequences, FiniteSets, TLC

\* ---------------------------------------------------------------- bounds
MaxCap == 4
MaxVal == 2
\* the storage of each of two maps that are compared
MaxEqCap == 3

Values == 1..MaxVal
Keys == 0..MaxCap

\* Option::None for an Option<usize> (head) and for an Option<T> (values are >= 1).
None == -1
NoVal == 0

\* ---------------------------------------------------------------- OptionIndex
Some(v) == [tag |-> "Some", x |-> v]
Index(i) == [tag |-> "Index", x |-> i]
NoIndex == [tag |-> "NoIndex", x |-> 0]

is_inner(c) == c.tag = "Some"
into_inner(c) == IF c.tag = "Some" THEN c.x ELSE NoVal
\* into_index that forgets the link it read
into_index_none(c) == None
into_index(c) == IF c.tag = "Index" THEN c.x ELSE None

\* a write that goes through take() and leaves the cell without its value
as_mut_take(c, v) == NoIndex

\* OptionIndex::as_mut, followed by `*r = v` through the &mut T it gives:
\* the reference is to the payload of a Some cell, and there is none for
\* an Index or a NoIndex cell
as_mut(c, v) == IF c.tag = "Some" THEN Some(v) ELSE c

\* ---------------------------------------------------------------- state
VARIABLES data, head, len, panicked, call, pending, dense, inserted, iter, maps

vars == <<data, head, len, panicked, call, pending, dense, inserted, iter, maps>>

\* the cell of key i
At(d, i) == d[i + 1]
\* d[i] = c
Put(d, i, c) == [d EXCEPT ![i + 1] = c]
InRange(d, i) == i >= 0 /\ i < Len(d)

contains_key(d, index) == IF index >= Len(d) THEN FALSE ELSE is_inner(At(d, index))
\* get that reads the payload of a free cell's link as a value
get_any(d, index) ==
    IF index >= Len(d) THEN NoVal
    ELSE IF At(d, index).tag = "NoIndex" THEN NoVal ELSE At(d, index).x + 1
get(d, index) == IF index >= Len(d) THEN NoVal ELSE into_inner(At(d, index))
is_empty(l) == l = 0

Occupied(d) == {k \in 0..(Len(d) - 1) : is_inner(At(d, k))}
FreeCells(d) == {k \in 0..(Len(d) - 1) : ~is_inner(At(d, k))}

\* the record every operation returns: the map after the call and what the
\* call produced (panic = "none" when it returned)
Result(d, h, l, r, p) == [data |-> d, head |-> h, len |-> l, ret |-> r, panic |-> p]

\* usize::MAX, the sentinel of `let mut last = usize::MAX`, in its
\* two's-complement reading (larger than no index of the model only as a sentinel)
USIZE_MAX == -1

\* ---------------------------------------------------------------- operations
\* an IndexMap: its three fields
Map(d, h, l) == [data |-> d, head |-> h, len |-> l]

\* IndexMap::new
new == Result(<<>>, None, 0, None, "none")

\* a freed cell that never links to the old head
FreedCell_end(h) == NoIndex

\* the cell remove and retain leave behind: a link to the old head, or the
\* end of the list when there was no head
FreedCell(h) == IF h # None THEN Index(h) ELSE NoIndex

\* insert that puts a new cell in front of the storage instead of behind it
insert_front(d, h, l, value) ==
    LET l1 == l + 1 IN
    IF h # None
    THEN IF ~InRange(d, h)
         THEN Result(d, h, l1, None, "index out of bounds")
         ELSE Result(Put(d, h, Some(value)), into_index(At(d, h)), l1, h, "none")
    ELSE Result(<<Some(value)>> \o d, h, l1, 0, "none")

\* insert that, with no head, writes into the last cell instead of pushing
insert_overlast(d, h, l, value) ==
    LET l1 == l + 1 IN
    IF h # None
    THEN IF ~InRange(d, h)
         THEN Result(d, h, l1, None, "index out of bounds")
         ELSE Result(Put(d, h, Some(value)), into_index(At(d, h)), l1, h, "none")
    ELSE IF Len(d) = 0 THEN Result(Append(d, Some(value)), h, l1, Len(d), "none")
    ELSE Result(Put(d, Len(d) - 1, Some(value)), h, l1, Len(d) - 1, "none")

\* insert without `self.len += 1`
insert_nolen(d, h, l, value) ==
    IF h # None
    THEN IF ~InRange(d, h)
         THEN Result(d, h, l, None, "index out of bounds")
         ELSE Result(Put(d, h, Some(value)), into_index(At(d, h)), l, h, "none")
    ELSE Result(Append(d, Some(value)), h, l, Len(d), "none")

\* insert that fills the head cell and leaves head on it
insert_keephead(d, h, l, value) ==
    LET l1 == l + 1 IN
    IF h # None
    THEN IF ~InRange(d, h)
         THEN Result(d, h, l1, None, "index out of bounds")
         ELSE Result(Put(d, h, Some(value)), h, l1, h, "none")
    ELSE Result(Append(d, Some(value)), h, l1, Len(d), "none")

\* an insert that pushes a new cell although the free list has one
insert_push(d, h, l, value) ==
    Result(Append(d, Some(value)), h, l + 1, Len(d), "none")

\* insert that returns data.len() instead of data.len() - 1 after a push
insert_off(d, h, l, value) ==
    LET l1 == l + 1 IN
    IF h # None
    THEN IF ~InRange(d, h)
         THEN Result(d, h, l1, None, "index out of bounds")
         ELSE Result(Put(d, h, Some(value)), into_index(At(d, h)), l1, h, "none")
    ELSE Result(Append(d, Some(value)), h, l1, Len(d) + 1, "none")

\* IndexMap::insert
insert(d, h, l, value) ==
    LET l1 == l + 1 IN
    IF h # None
    THEN IF ~InRange(d, h)
         THEN Result(d, h, l1, None, "index out of bounds")
         ELSE Result(Put(d, h, Some(value)), into_index(At(d, h)), l1, h, "none")
    ELSE Result(Append(d, Some(value)), h, l1, Len(d), "none")

\* remove that links the freed cell to itself instead of to the old head
remove_selflink(d, h, l, index) ==
    IF ~InRange(d, index) THEN Result(d, h, l, NoVal, "none")
    ELSE IF ~is_inner(At(d, index)) THEN Result(d, h, l, NoVal, "none")
    ELSE Result(Put(d, index, FreedCell(index)), index, l - 1, into_inner(At(d, index)), "none")

\* remove without `self.len -= 1`
remove_nolen(d, h, l, index) ==
    IF ~InRange(d, index) THEN Result(d, h, l, NoVal, "none")
    ELSE IF ~is_inner(At(d, index)) THEN Result(d, h, l, NoVal, "none")
    ELSE Result(Put(d, index, FreedCell(h)), index, l, into_inner(At(d, index)), "none")

\* remove that frees the cell and leaves head where it was
remove_keephead(d, h, l, index) ==
    IF ~InRange(d, index) THEN Result(d, h, l, NoVal, "none")
    ELSE IF ~is_inner(At(d, index)) THEN Result(d, h, l, NoVal, "none")
    ELSE Result(Put(d, index, FreedCell(h)), h, l - 1, into_inner(At(d, index)), "none")

\* remove without the is_inner check: a free cell is freed again
remove_unchecked(d, h, l, index) ==
    IF ~InRange(d, index) THEN Result(d, h, l, NoVal, "none")
    ELSE Result(Put(d, index, FreedCell(h)), index, l - 1, into_inner(At(d, index)), "none")

\* IndexMap::remove
remove(d, h, l, index) ==
    IF ~InRange(d, index) THEN Result(d, h, l, NoVal, "none")
    ELSE IF ~is_inner(At(d, index)) THEN Result(d, h, l, NoVal, "none")
    ELSE Result(Put(d, index, FreedCell(h)), index, l - 1, into_inner(At(d, index)), "none")

\* Option<(usize, T)>::None; Some((k, v)) is the pair <<k, v>>
NoEntry == <<>>

\* remove_entry that pairs the value with the old head instead of the key
remove_entry_head(d, h, l, index) ==
    LET r == remove(d, h, l, index) IN
    IF r.ret = NoVal THEN [r EXCEPT !.ret = NoEntry]
    ELSE [r EXCEPT !.ret = <<h, r.ret>>]

\* IndexMap::remove_entry
remove_entry(d, h, l, index) ==
    LET r == remove(d, h, l, index) IN
    IF r.ret = NoVal THEN [r EXCEPT !.ret = NoEntry]
    ELSE [r EXCEPT !.ret = <<index, r.ret>>]

\* retain that frees the rejected cells and leaves len as it was
RECURSIVE retain_from_nolen(_, _, _, _, _)
retain_from_nolen(d, h, l, keep, i) ==
    IF i >= Len(d) THEN Result(d, h, l, None, "none")
    ELSE IF is_inner(At(d, i)) /\ i \notin keep
         THEN retain_from_nolen(Put(d, i, FreedCell(h)), i, l, keep, i + 1)
         ELSE retain_from_nolen(d, h, l, keep, i + 1)

\* IndexMap::retain, from cell i on; keep is the set of keys the predicate accepts
RECURSIVE retain_from(_, _, _, _, _)
retain_from(d, h, l, keep, i) ==
    IF i >= Len(d) THEN Result(d, h, l, None, "none")
    ELSE IF is_inner(At(d, i)) /\ i \notin keep
         THEN retain_from(Put(d, i, FreedCell(h)), i, l - 1, keep, i + 1)
         ELSE retain_from(d, h, l, keep, i + 1)

\* a loop that hands every cell to the predicate, free or not
RECURSIVE retain_asked_all(_, _, _, _)
retain_asked_all(d, h, keep, i) ==
    IF i >= Len(d) THEN <<>>
    ELSE IF is_inner(At(d, i)) /\ i \notin keep
         THEN <<i>> \o retain_asked_all(Put(d, i, FreedCell(h)), i, keep, i + 1)
         ELSE <<i>> \o retain_asked_all(d, h, keep, i + 1)

\* the keys retain's loop passes to the predicate, in the order of the
\* calls, from cell i on: `if let OptionIndex::Some(val) = v { predicate(i, val) }`
RECURSIVE retain_asked(_, _, _, _)
retain_asked(d, h, keep, i) ==
    IF i >= Len(d) THEN <<>>
    ELSE IF is_inner(At(d, i))
         THEN IF i \notin keep
              THEN <<i>> \o retain_asked(Put(d, i, FreedCell(h)), i, keep, i + 1)
              ELSE <<i>> \o retain_asked(d, h, keep, i + 1)
         ELSE retain_asked(d, h, keep, i + 1)

\* retain that scans the storage from its last cell down
RECURSIVE retain_down(_, _, _, _, _)
retain_down(d, h, l, keep, i) ==
    IF i < 0 THEN Result(d, h, l, None, "none")
    ELSE IF is_inner(At(d, i)) /\ i \notin keep
         THEN retain_down(Put(d, i, FreedCell(h)), i, l - 1, keep, i - 1)
         ELSE retain_down(d, h, l, keep, i - 1)

retain_rev(d, h, l, keep) == retain_down(d, h, l, keep, Len(d) - 1)

retain(d, h, l, keep) == retain_from(d, h, l, keep, 0)

\* IndexMap::clear
clear(d, h, l) == Result(<<>>, h, 0, None, "none")

\* drain() without `self.len = 0`
drain_keeplen(d, h, l) == Result(<<>>, h, l, None, "none")

\* IndexMap::drain, with the Drain iterator dropped: the Vec's drain(..) empties data
drain(d, h, l) == Result(<<>>, h, 0, None, "none")

\* the search for last without `.rev()`: the lowest occupied index
find_last_norev(d) ==
    IF Occupied(d) = {} THEN USIZE_MAX
    ELSE CHOOSE i \in Occupied(d) : \A j \in Occupied(d) : i <= j

\* the search for last in shrink_to_fit: the highest occupied index
find_last(d) ==
    IF Occupied(d) = {} THEN USIZE_MAX
    ELSE CHOOSE i \in Occupied(d) : \A j \in Occupied(d) : j <= i

\* the end of shrink_to_fit with truncate(last + 2): one cell too many is kept
finish_off(d, cur, sh, should_set_head, last, l) ==
    LET sh1 == IF should_set_head
               THEN (IF cur < last THEN cur ELSE None)
               ELSE sh
        d1 == Put(d, cur, NoIndex)
    IN  Result(SubSeq(d1, 1, last + 2), sh1, l, None, "none")

\* shrink_to_fit after its loop: the last `self.head` update, the forced
\* NoIndex and the truncation.  cur is the local `head`, sh is `self.head`.
finish(d, cur, sh, should_set_head, last, l) ==
    LET sh1 == IF should_set_head
               THEN (IF cur < last THEN cur ELSE None)
               ELSE sh
        d1 == Put(d, cur, NoIndex)
    IN  Result(SubSeq(d1, 1, last + 1), sh1, l, None, "none")

\* what the loop of shrink_to_fit leaves: the storage, the local `head`
\* (cur), `self.head`, should_set_head, the cells it has left behind (one
\* for each turn of the loop) and the panic that ended it, if any
Walked(d, cur, sh, should_set_head, seen, p) ==
    [data |-> d, cur |-> cur, head |-> sh, should_set_head |-> should_set_head,
     seen |-> seen, panic |-> p]

\* the loop that leaves at the first link above last instead of following it
RECURSIVE loop_break(_, _, _, _, _, _)
loop_break(d, cur, sh, should_set_head, last, seen) ==
    IF ~InRange(d, cur) THEN Walked(d, cur, sh, should_set_head, seen, "index out of bounds")
    ELSE IF cur \in seen THEN Walked(d, cur, sh, should_set_head, seen, "revisit")
    ELSE IF At(d, cur).tag = "Index"
    THEN LET next == At(d, cur).x
             splice == next > last
         IN  IF splice /\ ~InRange(d, next)
             THEN Walked(d, cur, sh, should_set_head, seen, "index out of bounds")
             ELSE IF splice /\ is_inner(At(d, next))
             THEN Walked(d, cur, sh, should_set_head, seen, "unreachable")
             ELSE IF splice
             THEN Walked(Put(d, cur, At(d, next)), cur, sh, should_set_head, seen, "none")
             ELSE LET set == should_set_head /\ cur < last
                  IN  loop_break(d, next, IF set THEN cur ELSE sh,
                                 IF set THEN FALSE ELSE should_set_head,
                                 last, seen \cup {cur})
    ELSE Walked(d, cur, sh, should_set_head, seen, "none")

\* the loop whose splice reads self.data[last] instead of self.data[next]
RECURSIVE loop_readlast(_, _, _, _, _, _)
loop_readlast(d, cur, sh, should_set_head, last, seen) ==
    IF ~InRange(d, cur) THEN Walked(d, cur, sh, should_set_head, seen, "index out of bounds")
    ELSE IF cur \in seen THEN Walked(d, cur, sh, should_set_head, seen, "revisit")
    ELSE IF At(d, cur).tag = "Index"
    THEN LET next == At(d, cur).x
             splice == next > last
         IN  IF splice /\ ~InRange(d, last)
             THEN Walked(d, cur, sh, should_set_head, seen, "index out of bounds")
             ELSE IF splice /\ is_inner(At(d, last))
             THEN Walked(d, cur, sh, should_set_head, seen, "unreachable")
             ELSE LET d1 == IF splice THEN Put(d, cur, At(d, last)) ELSE d
                      set == should_set_head /\ cur < last
                  IN  loop_readlast(d1, next, IF set THEN cur ELSE sh,
                                    IF set THEN FALSE ELSE should_set_head,
                                    last, seen \cup {cur})
    ELSE Walked(d, cur, sh, should_set_head, seen, "none")

\* the `while let OptionIndex::Index(next) = self.data[head]` loop of
\* shrink_to_fit.  cur is the local `head`, sh is `self.head`, seen the
\* cells the loop has already stood on.
RECURSIVE loop(_, _, _, _, _, _)
loop(d, cur, sh, should_set_head, last, seen) ==
    IF ~InRange(d, cur) THEN Walked(d, cur, sh, should_set_head, seen, "index out of bounds")
    ELSE IF cur \in seen THEN Walked(d, cur, sh, should_set_head, seen, "revisit")
    ELSE IF At(d, cur).tag = "Index"
    THEN LET next == At(d, cur).x
             splice == next > last
         IN  IF splice /\ ~InRange(d, next)
             THEN Walked(d, cur, sh, should_set_head, seen, "index out of bounds")
             ELSE IF splice /\ is_inner(At(d, next))
             THEN Walked(d, cur, sh, should_set_head, seen, "unreachable")
             ELSE LET d1 == IF splice THEN Put(d, cur, At(d, next)) ELSE d
                      set == should_set_head /\ cur < last
                  IN  loop(d1, next, IF set THEN cur ELSE sh,
                           IF set THEN FALSE ELSE should_set_head,
                           last, seen \cup {cur})
    ELSE Walked(d, cur, sh, should_set_head, seen, "none")

\* the loop of shrink_to_fit and what follows it
walk(d, cur, sh, should_set_head, last, l, seen) ==
    LET w == loop(d, cur, sh, should_set_head, last, seen) IN
    IF w.panic # "none" THEN Result(w.data, w.head, l, None, w.panic)
    ELSE finish(w.data, w.cur, w.head, w.should_set_head, last, l)

\* shrink_to_fit that walks the free list also when the last cell is occupied
shrink_to_fit_nofast(d, h, l) ==
    IF h = None THEN Result(d, h, l, None, "none")
    ELSE IF Len(d) = 0 THEN Result(d, h, l, None, "unwrap on None")
    ELSE IF is_empty(l) THEN Result(<<>>, None, l, None, "none")
    ELSE LET last == find_last(d) IN
         IF last = USIZE_MAX THEN Result(d, h, l, None, "assert_ne")
         ELSE walk(d, h, h, h > last, last, l, {})

\* shrink_to_fit that forgets the free list when the last cell is occupied
shrink_to_fit_fastclear(d, h, l) ==
    IF h = None THEN Result(d, h, l, None, "none")
    ELSE IF Len(d) = 0 THEN Result(d, h, l, None, "unwrap on None")
    ELSE IF is_inner(d[Len(d)]) THEN Result(d, None, l, None, "none")
    ELSE IF is_empty(l) THEN Result(<<>>, None, l, None, "none")
    ELSE LET last == find_last(d) IN
         IF last = USIZE_MAX THEN Result(d, h, l, None, "assert_ne")
         ELSE walk(d, h, h, h > last, last, l, {})

\* shrink_to_fit whose branch for an empty map leaves head as it is
shrink_to_fit_keephead(d, h, l) ==
    IF h = None THEN Result(d, h, l, None, "none")
    ELSE IF Len(d) = 0 THEN Result(d, h, l, None, "unwrap on None")
    ELSE IF is_inner(d[Len(d)]) THEN Result(d, h, l, None, "none")
    ELSE IF is_empty(l) THEN Result(<<>>, h, l, None, "none")
    ELSE LET last == find_last(d) IN
         IF last = USIZE_MAX THEN Result(d, h, l, None, "assert_ne")
         ELSE walk(d, h, h, h > last, last, l, {})

\* IndexMap::shrink_to_fit
shrink_to_fit(d, h, l) ==
    IF h = None THEN Result(d, h, l, None, "none")
    ELSE IF Len(d) = 0 THEN Result(d, h, l, None, "unwrap on None")
    ELSE IF is_inner(d[Len(d)]) THEN Result(d, h, l, None, "none")
    ELSE IF is_empty(l) THEN Result(<<>>, None, l, None, "none")
    ELSE LET last == find_last(d) IN
         IF last = USIZE_MAX THEN Result(d, h, l, None, "assert_ne")
         ELSE walk(d, h, h, h > last, last, l, {})

\* ---------------------------------------------------------------- lookups
\* IndexMap::get_mut: the payload the returned &mut T points to
get_mut(d, index) == IF index >= Len(d) THEN NoVal ELSE into_inner(At(d, index))

\* IndexMap::get_key_value
get_key_value(d, index) ==
    IF get(d, index) = NoVal THEN NoEntry ELSE <<index, get(d, index)>>

\* indexing that goes to the Vec directly: it fails only outside the storage
index_raw(d, h, l, key) ==
    IF key >= Len(d) THEN Result(d, h, l, None, "index out of bounds")
    ELSE Result(d, h, l, At(d, key).x, "none")

\* Index<usize>::index: self.get(key).unwrap()
index_ref(d, h, l, key) ==
    IF get(d, key) = NoVal THEN Result(d, h, l, None, "unwrap on None")
    ELSE Result(d, h, l, get(d, key), "none")

\* IndexMut<usize>::index_mut: self.get_mut(key).unwrap()
index_mut(d, h, l, key) ==
    IF get_mut(d, key) = NoVal THEN Result(d, h, l, None, "unwrap on None")
    ELSE Result(d, h, l, get_mut(d, key), "none")

\* `if let Some(x) = map.get_mut(index) { *x = v }`
get_mut_write(d, h, l, index, v) ==
    IF get_mut(d, index) = NoVal THEN Result(d, h, l, NoVal, "none")
    ELSE Result(Put(d, index, as_mut(At(d, index), v)), h, l, v, "none")

\* `map[key] = v` through IndexMut
index_mut_write(d, h, l, key, v) ==
    IF index_mut(d, h, l, key).panic # "none" THEN index_mut(d, h, l, key)
    ELSE Result(Put(d, key, as_mut(At(d, key), v)), h, l, v, "none")

\* ---------------------------------------------------------------- iterators
\* Iter, IterMut, IntoIter, Drain, Keys, Values and ValuesMut: the cells the
\* inner iterator runs over (src), the index of the next cell it will hand
\* out (pos), the field len, the items next() has returned so far and
\* whether next() has returned None.
Iterator(kind, src, pos, l, yielded, done) ==
    [kind |-> kind, src |-> src, pos |-> pos, len |-> l,
     yielded |-> yielded, done |-> done]

\* no iterator is alive
NoIter == Iterator("none", <<>>, 0, 0, <<>>, FALSE)

\* an iterator made with len: data.len() instead of len: self.len()
into_iter_cells(kind, d, l) == Iterator(kind, d, 0, Len(d), <<>>, FALSE)

\* into_iter for &IndexMap, &mut IndexMap and IndexMap, the Drain of
\* drain(), and the Keys, Values and ValuesMut made from iter() / iter_mut()
into_iter(kind, d, l) == Iterator(kind, d, 0, l, <<>>, FALSE)

\* the inner Enumerate iterator moved on to the first Some cell at or after i
RECURSIVE scan(_, _)
scan(src, i) ==
    IF i >= Len(src) THEN None
    ELSE IF is_inner(At(src, i)) THEN i
    ELSE scan(src, i + 1)

\* the item next() returns for the pair the inner iterator found: Keys maps
\* it to `.0`, Values and ValuesMut to `.1`
item(kind, pair) ==
    IF kind = "keys" THEN pair[1]
    ELSE IF kind \in {"values", "values_mut"} THEN pair[2]
    ELSE pair

\* next() that hands out every cell with an index, free or not
next_all(it) ==
    LET i == IF it.pos >= Len(it.src) THEN None ELSE it.pos IN
    IF i = None
    THEN [iter |-> [it EXCEPT !.pos = Len(it.src), !.done = TRUE], panic |-> "none"]
    ELSE IF it.len = 0
    THEN [iter |-> [it EXCEPT !.pos = i + 1], panic |-> "subtract with overflow"]
    ELSE [iter |-> [it EXCEPT !.pos = i + 1, !.len = @ - 1,
                              !.yielded = Append(@, item(it.kind, <<i, At(it.src, i).x>>))],
          panic |-> "none"]

\* next() of every iterator (a debug build: `self.len -= 1`
\* panics at 0)
next(it) ==
    LET i == scan(it.src, it.pos) IN
    IF i = None
    THEN [iter |-> [it EXCEPT !.pos = Len(it.src), !.done = TRUE], panic |-> "none"]
    ELSE IF it.len = 0
    THEN [iter |-> [it EXCEPT !.pos = i + 1], panic |-> "subtract with overflow"]
    ELSE [iter |-> [it EXCEPT !.pos = i + 1, !.len = @ - 1,
                              !.yielded = Append(@, item(it.kind, <<i, At(it.src, i).x>>))],
          panic |-> "none"]

\* size_hint of every iterator
size_hint(it) == <<it.len, it.len>>

\* the live entries of d, lowest key first
Entries(d) ==
    LET occ == Occupied(d)
        nth(m) == CHOOSE k \in occ : Cardinality({j \in occ : j < k}) = m - 1
    IN  [m \in 1..Cardinality(occ) |-> <<nth(m), At(d, nth(m)).x>>]

\* ---------------------------------------------------------------- equality
\* derive(PartialEq) of OptionIndex: the same variant, with equal payloads
eq_cell(a, b) == a.tag = b.tag /\ (a.tag \in {"Some", "Index"} => a.x = b.x)

\* PartialEq of Vec: equal lengths and equal cells, index by index
eq_vec(d1, d2) == Len(d1) = Len(d2) /\ \A n \in 1..Len(d1) : eq_cell(d1[n], d2[n])

\* PartialEq of Option<usize>
eq_option(h1, h2) ==
    IF h1 = None \/ h2 = None THEN h1 = None /\ h2 = None ELSE h1 = h2

\* an equality of the live entries alone
eq_live(m1, m2) == Entries(m1.data) = Entries(m2.data)

\* derive(PartialEq) of IndexMap: data, head and len, field by field
eq(m1, m2) ==
    /\ eq_vec(m1.data, m2.data)
    /\ eq_option(m1.head, m2.head)
    /\ m1.len = m2.len

\* ---------------------------------------------------------------- actions
\* the last call: its name, argument and return value, the keys retain
\* rejected, and by how many cells it made the storage longer
Call(op, arg, ret, rej, grew) ==
    [op |-> op, arg |-> arg, ret |-> ret, rej |-> rej, grew |-> grew]

Init ==
    /\ data = new.data
    /\ head = new.head
    /\ len = new.len
    /\ panicked = "none"
    /\ call = Call("new", None, None, {}, 0)
    /\ pending = <<>>
    /\ dense = TRUE
    /\ inserted = 0
    /\ iter = NoIter
    /\ maps = <<Map(new.data, new.head, new.len), Map(new.data, new.head, new.len)>>

\* the map after a call with result r
Write(r, op, arg, rej) ==
    /\ data' = r.data
    /\ head' = r.head
    /\ len' = r.len
    /\ panicked' = r.panic
    /\ call' = Call(op, arg, r.ret, rej, Len(r.data) - Len(data))
    /\ maps' = maps

\* a call made while no iterator borrows the map
Apply(r, op, arg, rej) ==
    /\ iter = NoIter
    /\ Write(r, op, arg, rej)
    /\ iter' = iter

\* the keys of s, highest first
RECURSIVE Descending(_)
Descending(s) ==
    IF s = {} THEN <<>>
    ELSE LET m == CHOOSE i \in s : \A j \in s : j <= i
         IN  <<m>> \o Descending(s \ {m})

\* an entry has been removed: the count of inserts is no longer followed
Removed == dense' = FALSE /\ inserted' = 0

Insert(value) ==
    /\ panicked = "none"
    /\ head = None => Len(data) < MaxCap
    /\ LET r == insert(data, head, len, value) IN
       /\ Apply(r, "insert", value, {})
       /\ pending' = IF pending = <<>> THEN <<>> ELSE Tail(pending)
       /\ dense' = dense
       /\ inserted' = IF dense /\ r.panic = "none" THEN inserted + 1 ELSE inserted

\* insert on a storage that may grow to one cell more than MaxCap, so that
\* every key of Keys can be handed out (the five inserts of tests::test_map)
InsertWide(value) ==
    /\ panicked = "none"
    /\ head = None => Len(data) < MaxCap + 1
    /\ LET r == insert(data, head, len, value) IN
       /\ Apply(r, "insert", value, {})
       /\ pending' = IF pending = <<>> THEN <<>> ELSE Tail(pending)
       /\ dense' = dense
       /\ inserted' = IF dense /\ r.panic = "none" THEN inserted + 1 ELSE inserted

RemoveAs(op, index) ==
    /\ panicked = "none"
    /\ LET r == IF op = "remove_entry"
                THEN remove_entry(data, head, len, index)
                ELSE remove(data, head, len, index)
       IN
       /\ Apply(r, op, index, {})
       /\ IF contains_key(data, index)
          THEN pending' = <<index>> \o pending /\ Removed
          ELSE UNCHANGED <<pending, dense, inserted>>

Remove(index) == RemoveAs("remove", index)

\* IndexMap::remove_entry: remove, with the key paired to the value
RemoveEntry(index) == RemoveAs("remove_entry", index)

Retain(keep) ==
    /\ panicked = "none"
    /\ LET r == retain(data, head, len, keep)
           rej == Occupied(data) \ keep
       IN
       /\ Apply(r, "retain", None, rej)
       /\ pending' = Descending(rej) \o pending
       /\ IF rej # {} THEN Removed ELSE UNCHANGED <<dense, inserted>>

Clear ==
    /\ panicked = "none"
    /\ Apply(clear(data, head, len), "clear", None, {})
    /\ pending' = <<>>
    /\ IF Occupied(data) # {} THEN Removed ELSE UNCHANGED <<dense, inserted>>

Drain ==
    /\ panicked = "none"
    /\ Apply(drain(data, head, len), "drain", None, {})
    /\ pending' = <<>>
    /\ IF Occupied(data) # {} THEN Removed ELSE UNCHANGED <<dense, inserted>>

ShrinkToFit ==
    /\ panicked = "none"
    /\ Apply(shrink_to_fit(data, head, len), "shrink_to_fit", None, {})
    /\ pending' = <<>>
    /\ UNCHANGED <<dense, inserted>>

\* a call that reads the map and returns ret
Lookup(op, index, ret) ==
    /\ panicked = "none"
    /\ Apply(Result(data, head, len, ret, "none"), op, index, {})
    /\ UNCHANGED <<pending, dense, inserted>>

\* map[key] and &mut map[key]
Indexing(op, r, key) ==
    /\ panicked = "none"
    /\ Apply(r, op, key, {})
    /\ UNCHANGED <<pending, dense, inserted>>

GetOp == \E k \in Keys : Lookup("get", k, get(data, k))
GetMutOp == \E k \in Keys : Lookup("get_mut", k, get_mut(data, k))
GetKeyValueOp == \E k \in Keys : Lookup("get_key_value", k, get_key_value(data, k))
ContainsKeyOp == \E k \in Keys : Lookup("contains_key", k, contains_key(data, k))
IndexOp == \E k \in Keys : Indexing("index", index_ref(data, head, len, k), k)
IndexMutOp == \E k \in Keys : Indexing("index_mut", index_mut(data, head, len, k), k)

\* iter() / keys() / values(), iter_mut() / values_mut() and into_iter():
\* the map is borrowed, or moved into the iterator
IterStart(kind) ==
    /\ panicked = "none"
    /\ iter = NoIter
    /\ iter' = into_iter(kind, data, len)
    /\ UNCHANGED <<data, head, len, panicked, call, pending, dense, inserted, maps>>

\* drain(): the cells move into the Drain and the map is left empty
DrainStart ==
    /\ panicked = "none"
    /\ iter = NoIter
    /\ iter' = into_iter("drain", data, len)
    /\ Write(drain(data, head, len), "drain", None, {})
    /\ pending' = <<>>
    /\ IF Occupied(data) # {} THEN Removed ELSE UNCHANGED <<dense, inserted>>

IterNext ==
    /\ panicked = "none"
    /\ iter # NoIter
    /\ iter' = next(iter).iter
    /\ panicked' = next(iter).panic
    /\ UNCHANGED <<data, head, len, call, pending, dense, inserted, maps>>

\* the iterator is dropped and its borrow of the map ends; an IntoIter owns
\* the map, which is gone with it
IterDrop ==
    /\ panicked = "none"
    /\ iter # NoIter
    /\ iter.kind # "into_iter"
    /\ iter' = NoIter
    /\ UNCHANGED <<data, head, len, panicked, call, pending, dense, inserted, maps>>

\* a write through get_mut or IndexMut
GetMutWrite(index, v) ==
    /\ panicked = "none"
    /\ Apply(get_mut_write(data, head, len, index, v), "get_mut", index, {})
    /\ UNCHANGED <<pending, dense, inserted>>

IndexMutWrite(key, v) ==
    /\ panicked = "none"
    /\ Apply(index_mut_write(data, head, len, key, v), "index_mut", key, {})
    /\ UNCHANGED <<pending, dense, inserted>>

\* `*val = v` through the item that next() of an IterMut or a ValuesMut has
\* just returned: the &mut T into cell pos - 1 of the borrowed storage
IterMutWrite(v) ==
    /\ panicked = "none"
    /\ iter.kind \in {"iter_mut", "values_mut"}
    /\ ~iter.done
    /\ iter.yielded # <<>>
    /\ LET i == iter.pos - 1
           c == as_mut(At(data, i), v)
       IN  /\ Write(Result(Put(data, i, c), head, len, v, "none"), iter.kind, i, {})
           /\ iter' = [iter EXCEPT !.src = Put(@, i, c),
                                   !.yielded[Len(iter.yielded)] = item(iter.kind, <<i, c.x>>)]
    /\ UNCHANGED <<pending, dense, inserted>>

GetMutWriteOp == \E k \in Keys, v \in Values : GetMutWrite(k, v)
IndexMutWriteOp == \E k \in Keys, v \in Values : IndexMutWrite(k, v)
IterMutOp == \E kind \in {"iter_mut", "values_mut"} : IterStart(kind)
IterMutWriteOp == \E v \in Values : IterMutWrite(v)

IterKinds == {"iter", "keys", "values", "iter_mut", "values_mut", "into_iter"}
IterOp == \E kind \in IterKinds : IterStart(kind)

\* a call on one of two maps that are built side by side, to be compared
PairCall(n, r) ==
    /\ panicked = "none"
    /\ maps' = [maps EXCEPT ![n] = Map(r.data, r.head, r.len)]
    /\ panicked' = r.panic
    /\ UNCHANGED <<data, head, len, call, pending, dense, inserted, iter>>

PairInsert(n, value) ==
    /\ maps[n].head = None => Len(maps[n].data) < MaxEqCap
    /\ PairCall(n, insert(maps[n].data, maps[n].head, maps[n].len, value))

PairRemove(n, index) ==
    PairCall(n, remove(maps[n].data, maps[n].head, maps[n].len, index))

PairClear(n) ==
    PairCall(n, clear(maps[n].data, maps[n].head, maps[n].len))

PairInsertOp == \E n \in 1..2, value \in Values : PairInsert(n, value)
PairRemoveOp == \E n \in 1..2, index \in 0..MaxEqCap : PairRemove(n, index)
PairClearOp == \E n \in 1..2 : PairClear(n)

InsertWideOp == \E value \in Values : InsertWide(value)
InsertOp == \E value \in Values : Insert(value)
RemoveOp == \E index \in Keys : Remove(index)
RemoveEntryOp == \E index \in Keys : RemoveEntry(index)
\* the predicate is asked about the occupied cells only
RetainOp == \E keep \in SUBSET Occupied(data) : Retain(keep)

\* every public operation
Next == InsertOp \/ RemoveOp \/ RemoveEntryOp \/ RetainOp \/ Clear \/ Drain \/ ShrinkToFit
Spec == Init /\ [][Next]_vars

\* insert, remove, remove_entry and retain only
NextCore == InsertOp \/ RemoveOp \/ RemoveEntryOp \/ RetainOp
SpecCore == Init /\ [][NextCore]_vars

\* insert, remove, remove_entry, retain and shrink_to_fit
NextShrink == InsertOp \/ RemoveOp \/ RemoveEntryOp \/ RetainOp \/ ShrinkToFit
SpecShrink == Init /\ [][NextShrink]_vars

\* the operations that change the map one key at a time, clear and
\* shrink_to_fit, and the calls that only read the map
NextRead ==
    \/ InsertOp \/ RemoveOp \/ Clear \/ ShrinkToFit
    \/ GetOp \/ GetMutOp \/ GetKeyValueOp \/ ContainsKeyOp \/ IndexOp \/ IndexMutOp
SpecRead == Init /\ [][NextRead]_vars

\* insert, remove, clear and shrink_to_fit, and the iterators
NextIter ==
    \/ InsertOp \/ RemoveOp \/ Clear \/ ShrinkToFit
    \/ IterOp \/ DrainStart \/ IterNext \/ IterDrop
SpecIter == Init /\ [][NextIter]_vars

\* insert and remove, and the writes through get_mut, IndexMut, iter_mut
\* and values_mut
NextMut ==
    \/ InsertOp \/ RemoveOp
    \/ GetMutWriteOp \/ IndexMutWriteOp
    \/ IterMutOp \/ IterNext \/ IterMutWriteOp \/ IterDrop
SpecMut == Init /\ [][NextMut]_vars

\* insert and remove on a storage of up to MaxCap + 1 cells
NextWide == InsertWideOp \/ RemoveOp
SpecWide == Init /\ [][NextWide]_vars

\* two maps, each built by insert, remove and clear
NextEq == PairInsertOp \/ PairRemoveOp \/ PairClearOp
SpecEq == Init /\ [][NextEq]_vars

TypeOK ==
    /\ Len(data) <= MaxCap
    /\ head \in {None} \cup Keys
    /\ len \in Nat

\* ---------------------------------------------------------------- properties
\* the free list read from h: the cells met by following the links, and
\* whether the reading ended at a NoIndex cell without leaving the storage,
\* meeting an occupied cell or meeting a cell twice
RECURSIVE Chain(_, _, _)
Chain(d, cur, seq) ==
    IF cur = None THEN [seq |-> seq, ok |-> TRUE]
    ELSE IF ~InRange(d, cur) \/ (\E n \in 1..Len(seq) : seq[n] = cur)
    THEN [seq |-> seq, ok |-> FALSE]
    ELSE IF is_inner(At(d, cur)) THEN [seq |-> seq, ok |-> FALSE]
    ELSE Chain(d, into_index(At(d, cur)), Append(seq, cur))

FreeList(d, h) == Chain(d, h, <<>>)
Range(seq) == {seq[n] : n \in 1..Len(seq)}

\* the step removes key k: remove(k), remove_entry(k), a retain that
\* rejects k, clear or drain
RemovesKey(k) ==
    \/ call'.op \in {"clear", "drain"}
    \/ call'.op \in {"remove", "remove_entry"} /\ call'.arg = k
    \/ call'.op = "retain" /\ k \in call'.rej

\* C1: a key insert has returned maps to the inserted value, and every step
\* that does not remove a live key k (another key's insert or removal, a
\* retain that keeps k, shrink_to_fit) leaves get(k) as it was.
KeyStability ==
    [][/\ call'.op = "insert" /\ panicked' = "none"
            => get(data', call'.ret) = call'.arg
       /\ \A k \in Keys :
            (contains_key(data, k) /\ ~RemovesKey(k))
            => get(data', k) = get(data, k)]_vars

\* a shrink_to_fit has cut cells off a map that still holds a key
KeyStabilityWitness ==
    /\ call.op = "shrink_to_fit"
    /\ call.grew < 0
    /\ panicked = "none"
    /\ Occupied(data) # {}

\* C2: whenever every call so far has returned, len() is the number of keys
\* k with contains_key(k), and is_empty() holds exactly when there is none.
CountConsistency ==
    panicked = "none" =>
        /\ len = Cardinality({k \in Keys : contains_key(data, k)})
        /\ is_empty(len) <=> ~(\E k \in Keys : contains_key(data, k))

\* a retain has rejected some entries and kept others
CountConsistencyWitness ==
    /\ call.op = "retain"
    /\ call.rej # {}
    /\ len > 0

\* C3: after any inserts, removes and retains, head is absent or a free
\* cell of the storage, and the links from head visit every free cell of
\* the storage exactly once and end at a NoIndex cell.
FreeListWellFormed ==
    /\ head # None => InRange(data, head) /\ ~is_inner(At(data, head))
    /\ FreeList(data, head).ok
    /\ Range(FreeList(data, head).seq) = FreeCells(data)
    /\ Len(FreeList(data, head).seq) = Cardinality(FreeCells(data))

\* three free cells, linked in an order that is not the order of their keys
FreeListWellFormedWitness ==
    /\ Cardinality(FreeCells(data)) >= 3
    /\ \E k \in FreeCells(data) : At(data, k).tag = "Index" /\ At(data, k).x > k
    /\ \E k \in FreeCells(data) : At(data, k).tag = "Index" /\ At(data, k).x < k

\* the links stored in the free cells of d
Links(d) == {At(d, k).x : k \in {j \in FreeCells(d) : At(d, j).tag = "Index"}}

\* C4: after a shrink_to_fit that returned, head and every link stored in
\* a free cell are below the storage length, and the free list read from
\* head has no cycle.
ShrinkFreeListInRange ==
    (call.op = "shrink_to_fit" /\ panicked = "none") =>
        /\ head # None => head < Len(data)
        /\ \A i \in Links(data) : i < Len(data)
        /\ \A n, m \in 1..Len(FreeList(data, head).seq) :
              FreeList(data, head).seq[n] = FreeList(data, head).seq[m] => n = m
        /\ FreeList(data, head).ok

\* C5: shrink_to_fit leaves the set of live keys, the value of every live
\* key and len() as they were before the call.
ShrinkPreservesLive ==
    [][call'.op = "shrink_to_fit" =>
          /\ Occupied(data') = Occupied(data)
          /\ \A k \in Keys : get(data', k) = get(data, k)
          /\ len' = len]_vars

\* a shrink_to_fit has cut cells off a map that holds two keys and a free cell
ShrinkPreservesLiveWitness ==
    /\ call.op = "shrink_to_fit"
    /\ call.grew < 0
    /\ panicked = "none"
    /\ Cardinality(Occupied(data)) >= 2
    /\ FreeCells(data) # {}

\* C6: after a shrink_to_fit that returned, the storage length is the
\* highest live key plus one, or 0 when no key is live: it is at least
\* len() and the last cell of the storage, if any, is occupied.
ShrinkLength ==
    [][(call'.op = "shrink_to_fit" /\ panicked' = "none") =>
          /\ Occupied(data) = {} => Len(data') = 0
          /\ Occupied(data) # {} =>
                /\ (Len(data') - 1) \in Occupied(data)
                /\ \A k \in Occupied(data) : k <= Len(data') - 1
          /\ Len(data') >= len'
          /\ Len(data') > 0 => is_inner(data'[Len(data')])]_vars

\* a shrink_to_fit has cut at least two cells off and a key is still live
ShrinkLengthWitness ==
    /\ call.op = "shrink_to_fit"
    /\ call.grew < -1
    /\ panicked = "none"
    /\ len > 0

\* C7: after clear() the storage is empty, len is 0 and head is absent.
ClearResets ==
    call.op = "clear" => (data = <<>> /\ len = 0 /\ head = None)

\* C8: every insert returns, without a panic, a key the map then contains,
\* and makes len() larger by exactly one.
InsertCannotFail ==
    [][call'.op = "insert" =>
          /\ panicked' = "none"
          /\ contains_key(data', call'.ret)
          /\ len' = len + 1]_vars

\* C9: the keys freed and not yet reused are handed out again most recently
\* freed first: an insert made while such a key is pending returns the last
\* key freed and appends no cell.
LifoReuse ==
    [][(call'.op = "insert" /\ pending # <<>>) =>
          /\ call'.ret = Head(pending)
          /\ Len(data') = Len(data)
          /\ panicked' = "none"]_vars

\* an insert has reused a freed key while two more freed keys wait
LifoReuseWitness ==
    /\ call.op = "insert"
    /\ call.grew = 0
    /\ Len(pending) >= 2

\* C10: while no entry has been removed, the i-th insert (from 0) returns
\* key i.
Density ==
    [][(call'.op = "insert" /\ dense) =>
          (call'.ret = inserted /\ panicked' = "none")]_vars

\* the last cell the bound allows has been filled and nothing was ever removed
DensityWitness ==
    /\ dense
    /\ call.op = "insert"
    /\ call.ret = MaxCap - 1
    /\ inserted = MaxCap

\* C11: remove_entry(k) on a live key k with value v returns Some((k, v)),
\* remove(k) returns Some(v), and a remove(k) right after either returns None.
RoundTrip ==
    [][/\ \A k \in Keys :
            (call'.op = "remove_entry" /\ call'.arg = k /\ contains_key(data, k))
            => /\ call'.ret = <<k, get(data, k)>>
               /\ remove(data', head', len', k).ret = NoVal
       /\ \A k \in Keys :
            (call'.op = "remove" /\ call'.arg = k /\ contains_key(data, k))
            => /\ call'.ret = get(data, k)
               /\ remove(data', head', len', k).ret = NoVal
       /\ (call.op \in {"remove", "remove_entry"} /\ call'.op = "remove"
              /\ call'.arg = call.arg)
            => call'.ret = NoVal]_vars

\* a remove_entry has returned a pair whose value is not the first value
RoundTripWitness ==
    /\ call.op = "remove_entry"
    /\ call.ret # NoEntry
    /\ call.ret[1] > 0
    /\ call.ret[2] = MaxVal

\* C12: remove(k) on a key that is out of range or whose cell is free
\* returns None and changes neither the storage, nor head, nor len.
RemoveAbsent ==
    [][\A k \in Keys :
          (call'.op = "remove" /\ call'.arg = k /\ ~contains_key(data, k))
          => /\ call'.ret = NoVal
             /\ panicked' = "none"
             /\ data' = data /\ head' = head /\ len' = len]_vars

\* a remove of a free cell inside the storage has returned None, next to a live key
RemoveAbsentWitness ==
    /\ call.op = "remove"
    /\ call.ret = NoVal
    /\ InRange(data, call.arg)
    /\ ~is_inner(At(data, call.arg))
    /\ len > 0

\* key k is out of range or its cell is free
Absent(d, k) == ~InRange(d, k) \/ ~is_inner(At(d, k))

\* C13: for a key that is out of range or whose cell is free, get, get_mut
\* and get_key_value return None and contains_key returns false, none of
\* them panics, and contains_key(k) is true exactly when get(k) is Some.
LookupAbsent ==
    [][/\ \A k \in Keys :
            (call'.op \in {"get", "get_mut"} /\ call'.arg = k /\ Absent(data, k))
            => (call'.ret = NoVal /\ panicked' = "none")
       /\ \A k \in Keys :
            (call'.op = "get_key_value" /\ call'.arg = k /\ Absent(data, k))
            => (call'.ret = NoEntry /\ panicked' = "none")
       /\ \A k \in Keys :
            (call'.op = "contains_key" /\ call'.arg = k /\ Absent(data, k))
            => (call'.ret = FALSE /\ panicked' = "none")
       /\ call'.op = "contains_key"
            => (call'.ret <=> get(data, call'.arg) # NoVal)
       /\ \A k \in Keys : contains_key(data', k) <=> get(data', k) # NoVal]_vars

\* get has returned None for a free cell that holds a link
LookupAbsentWitness ==
    /\ call.op = "get"
    /\ call.ret = NoVal
    /\ InRange(data, call.arg)
    /\ At(data, call.arg).tag = "Index"

\* C14: map[k], read or written, panics exactly when get(k) is None, and
\* otherwise yields the value get(k) returns.
IndexPanics ==
    [][call'.op \in {"index", "index_mut"} =>
          /\ panicked' # "none" <=> get(data, call'.arg) = NoVal
          /\ panicked' = "none" => call'.ret = get(data, call'.arg)]_vars

\* map[k] has panicked on a free cell inside the storage
IndexPanicsWitness ==
    /\ call.op = "index"
    /\ panicked = "unwrap on None"
    /\ InRange(data, call.arg)
    /\ len > 0

\* remove(k) called for every key k of s, lowest key first
RECURSIVE RemoveAscending(_, _, _, _)
RemoveAscending(d, h, l, s) ==
    IF s = {} THEN Result(d, h, l, None, "none")
    ELSE LET k == CHOOSE i \in s : \A j \in s : i <= j
             r == remove(d, h, l, k)
         IN  RemoveAscending(r.data, r.head, r.len, s \ {k})

\* C15: retain removes exactly the live entries its predicate rejects, keeps
\* the others with their values, and leaves storage, head and len as
\* remove(k) on each rejected key, lowest key first, leaves them.
RetainIsRemoves ==
    [][call'.op = "retain" =>
          /\ Occupied(data') = Occupied(data) \ call'.rej
          /\ \A k \in Occupied(data') : get(data', k) = get(data, k)
          /\ data' = RemoveAscending(data, head, len, call'.rej).data
          /\ head' = RemoveAscending(data, head, len, call'.rej).head
          /\ len' = RemoveAscending(data, head, len, call'.rej).len]_vars

\* a retain has rejected two entries, kept one, and a cell was free before
RetainIsRemovesWitness ==
    /\ call.op = "retain"
    /\ Cardinality(call.rej) >= 2
    /\ len > 0
    /\ Cardinality(FreeCells(data)) > Cardinality(call.rej)

\* how many more items next() will return before it returns None
RECURSIVE StillToYield(_)
StillToYield(it) ==
    IF it.done \/ next(it).iter.done \/ next(it).panic # "none" THEN 0
    ELSE 1 + StillToYield(next(it).iter)

\* C16: for every iterator, after any number of next() calls, both bounds
\* of size_hint are the number of items next() will still return.
IteratorExact ==
    iter # NoIter =>
        /\ panicked = "none"
        /\ size_hint(iter)[1] = StillToYield(iter)
        /\ size_hint(iter)[2] = StillToYield(iter)
        /\ Len(iter.yielded) + iter.len = Cardinality(Occupied(iter.src))

\* a Drain over a storage with a free cell has returned an item and has more
IteratorExactWitness ==
    /\ iter.kind = "drain"
    /\ Len(iter.yielded) >= 1
    /\ iter.len >= 1
    /\ FreeCells(iter.src) # {}

\* C17: iter, keys, values, iter_mut, values_mut and into_iter yield the
\* live entries of the map, each once, lowest key first: the pairs, the
\* keys or the values, and nothing for a free cell; what it has yielded so
\* far is always the first of them.
IteratorYieldsLive ==
    iter.kind \in IterKinds =>
        /\ Len(iter.yielded) <= Len(Entries(data))
        /\ iter.done => Len(iter.yielded) = Len(Entries(data))
        /\ \A n \in 1..Len(iter.yielded) :
              /\ n <= Len(Entries(data))
              /\ iter.kind \in {"iter", "iter_mut", "into_iter"}
                    => iter.yielded[n] = Entries(data)[n]
              /\ iter.kind = "keys" => iter.yielded[n] = Entries(data)[n][1]
              /\ iter.kind \in {"values", "values_mut"}
                    => iter.yielded[n] = Entries(data)[n][2]
        /\ \A n \in 1..Len(Entries(data)) :
              /\ contains_key(data, Entries(data)[n][1])
              /\ get(data, Entries(data)[n][1]) = Entries(data)[n][2]
              /\ \A m \in 1..Len(Entries(data)) :
                    n < m => Entries(data)[n][1] < Entries(data)[m][1]
        /\ Len(Entries(data)) = Cardinality({k \in Keys : contains_key(data, k)})

\* values() has run to its end over two entries with a free cell between them
IteratorYieldsLiveWitness ==
    /\ iter.kind = "values"
    /\ iter.done
    /\ Len(iter.yielded) >= 2
    /\ \E k \in FreeCells(data) : contains_key(data, k + 1) /\ k > 0

\* C18: drain() yields the entries that were live, lowest key first, and
\* leaves the map empty: len() is 0, is_empty() holds and no key is contained.
DrainEmpties ==
    [][/\ (iter.kind = "none" /\ iter'.kind = "drain")
            => Entries(iter'.src) = Entries(data)
       /\ iter'.kind = "drain"
            => /\ iter'.done => iter'.yielded = Entries(iter'.src)
               /\ len' = 0 /\ is_empty(len')
               /\ \A k \in Keys : ~contains_key(data', k)
       /\ (iter.kind = "drain" /\ iter'.kind = "none")
            => /\ len' = 0 /\ is_empty(len')
               /\ \A k \in Keys : ~contains_key(data', k)]_vars

\* a Drain over two entries and a free cell has run to its end
DrainEmptiesWitness ==
    /\ iter.kind = "drain"
    /\ iter.done
    /\ Len(iter.yielded) >= 2
    /\ FreeCells(iter.src) # {}
    /\ data = <<>>

\* the free-list shape of a map: its head and the link of every free cell
Shape(m) == <<m.head, [k \in FreeCells(m.data) |-> At(m.data, k)]>>

\* C19: two maps compare equal exactly when their storage, head and len are
\* equal; two maps with the same live entries and the same free cells whose
\* free lists are linked in a different order compare unequal.
StructuralEq ==
    /\ eq(maps[1], maps[2]) <=>
          /\ maps[1].data = maps[2].data
          /\ maps[1].head = maps[2].head
          /\ maps[1].len = maps[2].len
    /\ (/\ Entries(maps[1].data) = Entries(maps[2].data)
        /\ Shape(maps[1]) # Shape(maps[2]))
          => ~eq(maps[1], maps[2])

\* both maps hold the same entry and have the same two free cells, freed
\* in a different order
StructuralEqWitness ==
    /\ panicked = "none"
    /\ Entries(maps[1].data) = Entries(maps[2].data)
    /\ Entries(maps[1].data) # <<>>
    /\ Len(maps[1].data) = Len(maps[2].data)
    /\ Cardinality(FreeCells(maps[1].data)) = 2
    /\ maps[1].head # maps[2].head
    /\ maps[1].head # None /\ maps[2].head # None
    /\ ~eq(maps[1], maps[2])

\* C20: shrink_to_fit on a map with no entry and a free list that is not
\* empty returns with the storage emptied and head absent, and an insert
\* made next returns key 0.
ShrinkEmptied ==
    [][(call'.op = "shrink_to_fit" /\ len = 0 /\ FreeCells(data) # {})
          => /\ panicked' = "none"
             /\ data' = <<>>
             /\ head' = None
             /\ len' = 0
             /\ \A value \in Values :
                   /\ insert(data', head', len', value).panic = "none"
                   /\ insert(data', head', len', value).ret = 0]_vars

\* a shrink_to_fit has emptied a storage of three free cells
ShrinkEmptiedWitness ==
    /\ call.op = "shrink_to_fit"
    /\ call.grew <= -3
    /\ data = <<>>
    /\ head = None
    /\ len = 0
    /\ panicked = "none"

\* C21: five inserts into a new map return the keys 0, 1, 2, 3, 4 and leave
\* head absent; remove(1) then makes head 1 and cell 1 a NoIndex; remove(4)
\* then makes head 4 and cell 4 a link to 1; the insert after that returns
\* key 4 and makes head 1 again.
TestMapScenario ==
    [][/\ (/\ call'.op = "insert"
           /\ Len(data) < 5 /\ FreeCells(data) = {} /\ head = None)
            => /\ call'.ret = Len(data)
               /\ head' = None
               /\ data' = Append(data, Some(call'.arg))
       /\ (/\ call'.op = "remove" /\ call'.arg = 1
           /\ Len(data) = 5 /\ FreeCells(data) = {} /\ head = None)
            => /\ head' = 1
               /\ data' = Put(data, 1, NoIndex)
               /\ call'.ret = At(data, 1).x
       /\ (/\ call'.op = "remove" /\ call'.arg = 4
           /\ Len(data) = 5 /\ FreeCells(data) = {1} /\ head = 1
           /\ At(data, 1) = NoIndex)
            => /\ head' = 4
               /\ data' = Put(data, 4, Index(1))
       /\ (/\ call'.op = "insert"
           /\ Len(data) = 5 /\ FreeCells(data) = {1, 4} /\ head = 4
           /\ At(data, 4) = Index(1) /\ At(data, 1) = NoIndex)
            => /\ call'.ret = 4
               /\ head' = 1
               /\ data' = Put(data, 4, Some(call'.arg))]_vars

\* the last insert of the scenario has returned key 4
TestMapScenarioWitness ==
    /\ call.op = "insert"
    /\ call.ret = 4
    /\ pending = <<1>>
    /\ head = 1
    /\ Len(data) = 5
    /\ FreeCells(data) = {1}
    /\ At(data, 1) = NoIndex
    /\ len = 4
    /\ panicked = "none"

\* the free list of a map that inserts and removals have made: the links
\* from h meet every free cell of d once and end at a NoIndex cell
WellFormed(d, h) ==
    /\ FreeList(d, h).ok
    /\ Range(FreeList(d, h).seq) = FreeCells(d)
    /\ Len(FreeList(d, h).seq) = Cardinality(FreeCells(d))

\* seq without the indices above last, the others in the order they had
Below(seq, last) == SelectSeq(seq, LAMBDA i : i <= last)

\* C22: on a map made by inserts and removals, the free list read from head
\* after shrink_to_fit is the free list before the call with every index
\* above the highest live key deleted and the others in the same order.
ShrinkDeletesOnly ==
    [][(call'.op = "shrink_to_fit" /\ WellFormed(data, head)) =>
          /\ panicked' = "none"
          /\ FreeList(data', head').ok
          /\ FreeList(data', head').seq
                = Below(FreeList(data, head).seq, find_last(data))]_vars

\* shrink_to_fit takes its slow path: head is present, the last cell is
\* free and the map is not empty
SlowPath(d, h, l) ==
    /\ h # None
    /\ Len(d) > 0
    /\ ~is_inner(d[Len(d)])
    /\ ~is_empty(l)

\* the loop of shrink_to_fit as the call on (d, h) runs it
WalkOf(d, h) == loop(d, h, h, h > find_last(d), find_last(d), {})

\* C23 as stated: in the slow path of shrink_to_fit the walk stops at a
\* node that is at most last, and that node is NoIndex after the call.
ShrinkWalkStopsBelow ==
    [][(/\ call'.op = "shrink_to_fit" /\ panicked' = "none"
        /\ SlowPath(data, head, len))
          => /\ WalkOf(data, head).cur <= find_last(data)
             /\ At(data', WalkOf(data, head).cur) = NoIndex]_vars

\* C23: in the slow path of shrink_to_fit the walk stops at the cell that
\* ends the free list of before the call, wherever that cell lies; the
\* cell is set to NoIndex, and when it is at most last it is NoIndex after
\* the call and ends the list read from the new head.
ShrinkWalkStopsAtEnd ==
    [][(/\ call'.op = "shrink_to_fit" /\ panicked' = "none"
        /\ SlowPath(data, head, len))
          => LET w == WalkOf(data, head)
                 old == FreeList(data, head)
             IN  /\ old.ok
                 /\ w.cur = old.seq[Len(old.seq)]
                 /\ At(data, w.cur) = NoIndex
                 /\ w.cur <= find_last(data) =>
                       /\ At(data', w.cur) = NoIndex
                       /\ FreeList(data', head').ok =>
                             w.cur = FreeList(data', head').seq[Len(FreeList(data', head').seq)]]_vars

\* a shrink_to_fit on its slow path has cut cells off and returned, and a
\* free list is left among at least two live keys
ShrinkWalkStopsAtEndWitness ==
    /\ call.op = "shrink_to_fit"
    /\ call.grew < 0
    /\ panicked = "none"
    /\ head # None
    /\ FreeList(data, head).ok
    /\ Len(FreeList(data, head).seq) >= 1
    /\ len >= 2

\* C24: when shrink_to_fit is called with head above last, head after the
\* call is the first cell of the old free list, in list order, that is at
\* most last, or absent when the old list has no such cell; a head that is
\* at most last is left as it was.
ShrinkHead ==
    [][(call'.op = "shrink_to_fit" /\ panicked' = "none" /\ head # None) =>
          LET last == find_last(data)
              below == Below(FreeList(data, head).seq, last)
          IN  IF head > last
              THEN head' = IF below = <<>> THEN None ELSE below[1]
              ELSE head' = head]_vars

\* C25: when head is absent, or when the last cell of the storage is
\* occupied, shrink_to_fit returns with the cells of the storage, its
\* length, head and len as they were.
ShrinkFastPath ==
    [][(/\ call'.op = "shrink_to_fit"
        /\ \/ head = None
           \/ Len(data) > 0 /\ is_inner(data[Len(data)]))
          => /\ panicked' = "none"
             /\ data' = data
             /\ Len(data') = Len(data)
             /\ head' = head
             /\ len' = len]_vars

\* a shrink_to_fit has returned at once on a map with a free list and an
\* occupied last cell
ShrinkFastPathWitness ==
    /\ call.op = "shrink_to_fit"
    /\ call.grew = 0
    /\ panicked = "none"
    /\ head # None
    /\ Len(data) > 0
    /\ is_inner(data[Len(data)])
    /\ Cardinality(FreeCells(data)) >= 2

\* C26: whenever the storage is empty, head is absent, so shrink_to_fit
\* never evaluates data.last().unwrap() on an empty storage.
EmptyStorageNoHead ==
    /\ data = <<>> => head = None
    /\ panicked # "unwrap on None"

\* C27: no shrink_to_fit takes the unreachable!() branch: its walk never
\* reads a link out of a cell that holds a value.
ShrinkNeverUnreachable ==
    [][call'.op = "shrink_to_fit" =>
          /\ panicked' # "unreachable"
          /\ SlowPath(data, head, len) =>
                WalkOf(data, head).panic # "unreachable"]_vars

\* a shrink_to_fit has walked a free list, cut a cell off the storage and
\* left a free cell between the live cells it kept
ShrinkNeverUnreachableWitness ==
    /\ call.op = "shrink_to_fit"
    /\ call.grew <= -1
    /\ panicked = "none"
    /\ head # None
    /\ Len(data) = 3
    /\ FreeCells(data) = {1}

\* C28: in the slow path of shrink_to_fit an occupied cell exists, so the
\* search for last finds one and assert_ne!(last, usize::MAX) never fails.
ShrinkFindsLast ==
    [][call'.op = "shrink_to_fit" =>
          /\ panicked' # "assert_ne"
          /\ SlowPath(data, head, len) =>
                /\ Occupied(data) # {}
                /\ find_last(data) # USIZE_MAX
                /\ contains_key(data, find_last(data))]_vars

\* a shrink_to_fit on its slow path has found last and cut off every free
\* cell of the map
ShrinkFindsLastWitness ==
    /\ call.op = "shrink_to_fit"
    /\ call.grew <= -2
    /\ panicked = "none"
    /\ head = None
    /\ len >= 1

\* C29: the walk of shrink_to_fit ends: it stands on no cell twice, every
\* cell it stands on is a free cell, and it makes at most as many turns as
\* the map has free cells.
ShrinkTerminates ==
    [][call'.op = "shrink_to_fit" =>
          /\ panicked' # "revisit"
          /\ SlowPath(data, head, len) =>
                LET w == WalkOf(data, head) IN
                /\ w.panic # "revisit"
                /\ w.seen \subseteq FreeCells(data)
                /\ w.cur \notin w.seen
                /\ Cardinality(w.seen) <= Cardinality(FreeCells(data))]_vars

\* a shrink_to_fit has walked a free list of three cells and returned
ShrinkTerminatesWitness ==
    /\ call.op = "shrink_to_fit"
    /\ call.grew <= -1
    /\ panicked = "none"
    /\ Len(data) + (0 - call.grew) >= 4
    /\ len = 1
    /\ Cardinality(FreeCells(data)) >= 1

\* C30: an insert called with head present takes the head cell: it returns
\* that key, stores the value there, makes head the link the cell held
\* (absent for a NoIndex cell) and leaves the storage length as it was; an
\* insert called with head absent appends one occupied cell and returns
\* the storage length of before the call.
InsertFollowsFreeList ==
    [][call'.op = "insert" =>
          /\ panicked' = "none"
          /\ IF head # None
             THEN /\ call'.ret = head
                  /\ head' = (IF At(data, head).tag = "Index"
                              THEN At(data, head).x ELSE None)
                  /\ data' = Put(data, head, Some(call'.arg))
                  /\ Len(data') = Len(data)
             ELSE /\ call'.ret = Len(data)
                  /\ data' = Append(data, Some(call'.arg))
                  /\ head' = None]_vars

\* C31: a remove(k) of a live key k makes cell k a link to the old head, or
\* a NoIndex when there was no head, makes head k, makes len one less and
\* returns the value; no other cell changes, nor the storage length.
RemoveFreesCell ==
    [][\A k \in Keys :
          (call'.op = "remove" /\ call'.arg = k /\ contains_key(data, k))
          => /\ panicked' = "none"
             /\ At(data', k) = (IF head # None THEN Index(head) ELSE NoIndex)
             /\ head' = k
             /\ len' = len - 1
             /\ call'.ret = At(data, k).x
             /\ Len(data') = Len(data)
             /\ \A j \in 0..(Len(data) - 1) : j # k => At(data', j) = At(data, j)]_vars

\* a remove has linked the cell it freed to an older free cell above it,
\* and a key is still live
RemoveFreesCellWitness ==
    /\ call.op = "remove"
    /\ call.ret # NoVal
    /\ head = call.arg
    /\ At(data, head).tag = "Index"
    /\ At(data, head).x > head
    /\ Occupied(data) # {}

\* C32: after any inserts, removes, retains and shrink_to_fits, head is
\* absent exactly when no cell of the storage is free.
HeadIffFree ==
    panicked = "none" => (head = None <=> FreeCells(data) = {})

\* remove(k) and then insert(v) on the map (d, h, l)
RemoveInsert(d, h, l, k, v) ==
    LET r == remove(d, h, l, k) IN insert(r.data, r.head, r.len, v)

\* C33: on every reachable map and for every live key k, remove(k) followed
\* at once by insert(v) returns k and leaves storage, head and len as they
\* were before the remove, but for cell k, which holds v; when v is the
\* value removed the map compares equal to the map of before.  An insert
\* that follows a remove of a live key does this.
RemoveInsertRestores ==
    [][/\ \A k \in Occupied(data) : \A v \in Values :
            LET r == RemoveInsert(data, head, len, k, v) IN
            /\ r.panic = "none"
            /\ r.ret = k
            /\ r.data = Put(data, k, Some(v))
            /\ r.head = head
            /\ r.len = len
            /\ v = get(data, k)
                  => eq(Map(r.data, r.head, r.len), Map(data, head, len))
            /\ v # get(data, k)
                  => ~eq(Map(r.data, r.head, r.len), Map(data, head, len))
       /\ (call.op = "remove" /\ call.ret # NoVal /\ call'.op = "insert")
            => /\ call'.ret = call.arg
               /\ data' = Put(data, call.arg, Some(call'.arg))
               /\ head' = into_index(At(data, call.arg))
               /\ len' = len + 1
               /\ panicked' = "none"]_vars

\* an insert right after a remove has given the key back, in a map that
\* has another free cell and another live key
RemoveInsertRestoresWitness ==
    /\ call.op = "insert"
    /\ call.grew = 0
    /\ panicked = "none"
    /\ head # None
    /\ head > call.ret
    /\ Cardinality(Occupied(data)) >= 2
    /\ pending # <<>>

\* C34: retain calls its predicate once for each entry that is live when
\* retain starts, lowest key first, and for no free cell.
RetainAsksEachOnce ==
    [][call'.op = "retain" =>
          LET asked == retain_asked(data, head, Occupied(data) \ call'.rej, 0) IN
          /\ Len(asked) = Cardinality(Occupied(data))
          /\ \A n \in 1..Len(asked) :
                /\ contains_key(data, asked[n])
                /\ asked[n] = Entries(data)[n][1]
                /\ \A m \in 1..Len(asked) : n < m => asked[n] < asked[m]]_vars

\* a retain has run over a storage with a free cell and two entries or
\* more, and has rejected one of them
RetainAsksEachOnceWitness ==
    /\ call.op = "retain"
    /\ Cardinality(call.rej) = 1
    /\ Cardinality(FreeCells(data)) >= 2
    /\ len >= 1
    /\ \E k \in call.rej : \E j \in FreeCells(data) : j < k /\ j \notin call.rej

\* C35: a key that insert returns is below the storage length of after the
\* insert and was not live right before it; the entries that were live
\* keep their values, so no two entries share a key.
InsertFreshKey ==
    [][(call'.op = "insert" /\ panicked' = "none") =>
          /\ call'.ret >= 0
          /\ call'.ret < Len(data')
          /\ ~contains_key(data, call'.ret)
          /\ Occupied(data') = Occupied(data) \cup {call'.ret}
          /\ \A k \in Occupied(data) : get(data', k) = get(data, k)
          /\ Cardinality(Occupied(data')) = Cardinality(Occupied(data)) + 1]_vars

\* an insert has returned a freed key that lies between two live keys
InsertFreshKeyWitness ==
    /\ call.op = "insert"
    /\ call.grew = 0
    /\ panicked = "none"
    /\ call.ret >= 1
    /\ contains_key(data, call.ret - 1)
    /\ contains_key(data, call.ret + 1)

\* C36: once drain() has returned and its Drain is dropped, after any
\* number of next() calls, the map is as new() makes it: the storage is
\* empty, len is 0 and head is absent, and the next insert returns key 0.
DrainResets ==
    [][(iter.kind = "drain" /\ iter' = NoIter) =>
          /\ data' = new.data
          /\ len' = new.len
          /\ head' = new.head
          /\ \A value \in Values :
                /\ insert(data', head', len', value).panic = "none"
                /\ insert(data', head', len', value).ret = 0]_vars

\* C37: a write through get_mut(k), IndexMut, iter_mut() or values_mut()
\* changes the value of the occupied cell it goes to and nothing else: the
\* live keys, the free cells and their links, head, len, the storage
\* length and every other value are as before.
MutationFrame ==
    [][(call'.op \in {"get_mut", "index_mut", "iter_mut", "values_mut"}
            /\ panicked' = "none") =>
          /\ Occupied(data') = Occupied(data)
          /\ \A k \in FreeCells(data) : At(data', k) = At(data, k)
          /\ head' = head
          /\ len' = len
          /\ Len(data') = Len(data)
          /\ \A k \in Occupied(data) : k # call'.arg => get(data', k) = get(data, k)
          /\ contains_key(data, call'.arg) => get(data', call'.arg) = call'.ret]_vars

\* a values_mut() has changed the value of a key that lies above a free
\* cell, on a map with a free list
MutationFrameWitness ==
    /\ call.op = "values_mut"
    /\ panicked = "none"
    /\ head # None
    /\ call.arg > head
    /\ get(data, call.arg) = call.ret
    /\ Len(iter.yielded) >= 2

\* C38: in every state reached from new() by insert, remove, remove_entry
\* and retain, len() is at most the storage length, and the storage length
\* is the largest value len() has had so far: it is 0 at first, and after
\* every call it is the larger of what it was and the new len(); an insert
\* makes the storage longer only when no cell is free.
StorageIsPeakLen ==
    [][/\ len <= Len(data)
       /\ len' <= Len(data')
       /\ Len(data') = (IF len' > Len(data) THEN len' ELSE Len(data))
       /\ Len(data') > Len(data) =>
             /\ call'.op = "insert"
             /\ FreeCells(data) = {}
             /\ Len(data') = Len(data) + 1]_vars

\* an insert has taken a free cell of a storage that has had MaxCap live
\* entries, and another cell is still free
StorageIsPeakLenWitness ==
    /\ call.op = "insert"
    /\ call.grew = 0
    /\ Len(data) = MaxCap
    /\ len = MaxCap - 1
    /\ head # None

\* C39: shrink_to_fit is idempotent: a second shrink_to_fit() right after
\* one that returned does not panic and leaves the storage, head and len
\* as the first call left them.
ShrinkIdempotent ==
    [][(call'.op = "shrink_to_fit" /\ panicked' = "none") =>
          LET again == shrink_to_fit(data', head', len')
          IN  /\ again.panic = "none"
              /\ again.data = data'
              /\ again.head = head'
              /\ again.len = len']_vars

\* a shrink_to_fit() has cut cells off a storage and has left a free list
\* of two cells below the highest live key
ShrinkIdempotentWitness ==
    /\ call.op = "shrink_to_fit"
    /\ panicked = "none"
    /\ call.grew <= -1
    /\ head # None
    /\ Cardinality(FreeCells(data)) = 2
    /\ len >= 1

====
